---- MODULE Spec2Model ----
(***************************************************************************)
(* A model of sqlsockets.py: ParentSocket.create_many and                  *)
(* ParentSocket.query over the tables parent, child and parent_child of a  *)
(* PostgreSQL database (READ COMMITTED, the engine's default isolation     *)
(* level). A table is a bag of rows: that a key occurs once is the work of *)
(* the primary keys, not of the representation.                            *)
(***************************************************************************)
EXTENDS Integers, Sequences, FiniteSets, Bags, TLC

\* ------------------------------------------------------------------ bounds
\* the objects of a list given to create_many: its Parents and their Child entries
MaxSize == 4
\* the same, for each of two calls that run at the same time
MaxRaceSize == 3
\* the identities of a list given to query
MaxKeys == 2

\* UUID4 values, the identities of Parent and of Child objects: two of each, enough
\* to tell an identity met before from a new one
ParentIds == {"P1", "P2"}
ChildIds == {"C1", "C2"}

\* the callers of create_many
Writers == {"w1", "w2"}

SeqsUpTo(S, n) == UNION {[1..k -> S] : k \in 0..n}

Range(s) == {s[i] : i \in DOMAIN s}

\* class Child(BaseModel): id
Child == [id : ChildIds]

\* class Parent(BaseModel): id, children: list[Child]
Parent(n) == [id : ParentIds, children : SeqsUpTo(Child, n)]

\* the number of objects of a list of Parent
RECURSIVE Size(_)
Size(os) == IF os = <<>> THEN 0 ELSE 1 + Len(Head(os).children) + Size(Tail(os))

\* list[Parent] of at most n objects
RECURSIVE Lists(_)
Lists(n) ==
  IF n = 0 THEN {<<>>}
  ELSE {<<>>} \cup UNION {{<<obj>> \o os : os \in {l \in Lists(n - 1) : Size(<<obj>>) + Size(l) <= n}} :
                           obj \in Parent(n - 1)}

\* objs: list[Parent], the argument of create_many
Batches == Lists(MaxSize)

\* the arguments of two calls that run at the same time
RaceBatches == Lists(MaxRaceSize)

\* str(uuid): the text form bound to the INSERT statements
Str(u) == <<"str", u>>

\* a UUID column reads the text form back into a UUID value
Uuid(s) == s[2]

VARIABLES
  parent_table,        \* committed rows of table parent: bag of user_id
  child_table,         \* committed rows of table child: bag of id
  parent_child_table,  \* committed rows of table parent_child: bag of <<parent_id, child_id>>
  pc,                  \* pc[w]: where caller w is in create_many
  objs,                \* objs[w]: the argument of w's current call
  staged,              \* staged[w]: parent_instances, child_instances, parent_child_instances, inserted_children
  idx,                 \* idx[w]: the next row of the running INSERT statement
  tx,                  \* tx[w]: rows written by w's open transaction, not yet committed
  result,              \* result[w]: the rows of RETURNING parent.user_id
  out,                 \* out[w]: how w's call ended
  conn,                \* conn[w]: the connection of w's call
  pre,                 \* pre[w]: the committed tables when w's call began (history)
  q                    \* the last call of query: its argument, the rows it read, its outcome,
                       \* and (history) the committed tables and the uncommitted
                       \* parent_child rows at the time of its SELECT

vars == <<parent_table, child_table, parent_child_table, pc, objs, staged, idx, tx,
          result, out, conn, pre, q>>

tables == <<parent_table, child_table, parent_child_table>>

Committed(t) ==
  CASE t = "parent" -> parent_table
    [] t = "child" -> child_table
    [] t = "parent_child" -> parent_child_table

NoStage == [parent_instances |-> <<>>, child_instances |-> <<>>,
            parent_child_instances |-> <<>>, inserted_children |-> {}]

NoTx == [parent |-> EmptyBag, child |-> EmptyBag, parent_child |-> EmptyBag]

NoTables == <<EmptyBag, EmptyBag, EmptyBag>>

NoOut == [kind |-> "none"]

NoQuery == [kind |-> "none"]

\* ------------------------------------------------------ create_many: staging

\* lines 96-100: the loop over obj.children
RECURSIVE StageChildren(_, _, _)
StageChildren(parent_id, children, st) ==
  IF children = <<>> THEN st
  ELSE LET child == Head(children)
           st2 == IF child.id \notin st.inserted_children
                  THEN [st EXCEPT
                          !.child_instances = Append(@, [id |-> Str(child.id)]),
                          !.inserted_children = @ \cup {child.id},
                          !.parent_child_instances =
                             Append(@, [parent_id |-> parent_id, child_id |-> Str(child.id)])]
                  ELSE st
       IN StageChildren(parent_id, Tail(children), st2)

\* lines 93-100: the loop over objs
RECURSIVE StageObjs(_, _)
StageObjs(os, st) ==
  IF os = <<>> THEN st
  ELSE LET obj == Head(os)
           parent_id == Str(obj.id)
           st1 == [st EXCEPT !.parent_instances = Append(@, [user_id |-> parent_id])]
       IN StageObjs(Tail(os), StageChildren(parent_id, obj.children, st1))

\* lines 85-100
Stage(os) == StageObjs(os, NoStage)

\* ------------------------------------------------------ the database

\* PrimaryKey with a fault: table child declared without its primary key
PrimaryKeyNotOnChild(t) == t \in {"parent", "parent_child"}

\* primary_key=True on parent.user_id, on child.id and on the pair of parent_child
PrimaryKey(t) == t \in {"parent", "child", "parent_child"}

\* Visible with a fault: the rows of open transactions are read too (dirty reads)
VisibleUncommitted(committed, pending) == committed (+) pending

\* a statement of READ COMMITTED reads the committed rows of a table
Visible(committed, pending) == committed

\* the uncommitted rows of table t, over all open transactions
Pending(t) ==
  LET RECURSIVE Sum(_)
      Sum(ws) == IF ws = {} THEN EmptyBag
                 ELSE LET w == CHOOSE x \in ws : TRUE
                      IN tx[w][t] (+) Sum(ws \ {w})
  IN Sum(Writers)

\* the key is in a committed row or in a row of w's own transaction
Duplicate(w, t, key) ==
  PrimaryKey(t) /\ (BagIn(key, Committed(t)) \/ BagIn(key, tx[w][t]))

\* another open transaction has written a row with this key: the INSERT waits for its end
HeldByOther(w, t, key) ==
  PrimaryKey(t) /\ \E o \in Writers \ {w} : BagIn(key, tx[o][t])

\* ForeignKey("parent.user_id"), ForeignKey("child.id"): the referenced rows must be
\* there, committed or written by w's own transaction
ForeignKeysHold(w, key) ==
  /\ BagIn(key[1], parent_table) \/ BagIn(key[1], tx[w].parent)
  /\ BagIn(key[2], child_table) \/ BagIn(key[2], tx[w].child)

\* Rollback with a fault: no transaction around the statements (autocommit), the rows
\* written before the failing statement stay
RollbackKeepsRows(w) ==
  /\ parent_table' = parent_table (+) tx[w].parent
  /\ child_table' = child_table (+) tx[w].child
  /\ parent_child_table' = parent_child_table (+) tx[w].parent_child
  /\ tx' = [tx EXCEPT ![w] = NoTx]

\* an exception leaves `with conn.begin()`: the transaction is rolled back
Rollback(w) ==
  /\ tx' = [tx EXCEPT ![w] = NoTx]
  /\ UNCHANGED tables

\* the exception leaves create_many through both `with` blocks
Raise(w, err) ==
  /\ Rollback(w)
  /\ pc' = [pc EXCEPT ![w] = "raised"]
  /\ out' = [out EXCEPT ![w] = [kind |-> "raised", error |-> err]]
  /\ conn' = [conn EXCEPT ![w] = "closed"]
  /\ UNCHANGED <<objs, staged, idx, result, pre, q>>

\* ------------------------------------------------------ create_many: actions

\* Connect with a fault: the test for the empty list made inside `with engine.connect()`
ConnectBeforeTest(os) == IF os = <<>> THEN "closed" ELSE "transaction"

\* lines 82-83, 92, 103: no connection for an empty list, else a connection with a
\* transaction begun on it
Connect(os) == IF os = <<>> THEN "none" ELSE "transaction"

\* lines 80-103: the empty case, or connect, stage and begin
Call(w, os) ==
  /\ pc[w] = "idle"
  /\ objs' = [objs EXCEPT ![w] = os]
  /\ pre' = [pre EXCEPT ![w] = tables]
  /\ result' = [result EXCEPT ![w] = <<>>]
  /\ idx' = [idx EXCEPT ![w] = 1]
  /\ conn' = [conn EXCEPT ![w] = Connect(os)]
  /\ IF os = <<>>
     THEN /\ pc' = [pc EXCEPT ![w] = "returned"]
          /\ out' = [out EXCEPT ![w] = [kind |-> "returned", value |-> 0]]
          /\ staged' = [staged EXCEPT ![w] = NoStage]
     ELSE /\ pc' = [pc EXCEPT ![w] = "parent"]
          /\ out' = [out EXCEPT ![w] = NoOut]
          /\ staged' = [staged EXCEPT ![w] = Stage(os)]
  /\ UNCHANGED <<tables, tx, q>>

\* lines 108-116: the statement that follows insert(parent_table)
AfterParent(w) == IF staged[w].child_instances # <<>> THEN "child" ELSE "commit"

\* the running statement has written its row: on to its next row, or to statement `then`
Advance(w, rows, then) ==
  IF idx[w] = Len(rows)
  THEN /\ pc' = [pc EXCEPT ![w] = then]
       /\ idx' = [idx EXCEPT ![w] = 1]
  ELSE /\ idx' = [idx EXCEPT ![w] = @ + 1]
       /\ UNCHANGED pc

\* lines 105-106: one row of insert(parent_table).values(parent_instances).returning(user_id)
InsertParentRow(w) ==
  /\ pc[w] = "parent"
  /\ LET rows == staged[w].parent_instances
         key == Uuid(rows[idx[w]].user_id)
     IN /\ ~HeldByOther(w, "parent", key)
        /\ IF Duplicate(w, "parent", key)
           THEN Raise(w, "UniqueViolation")
           ELSE /\ tx' = [tx EXCEPT ![w].parent = @ (+) SetToBag({key})]
                /\ result' = [result EXCEPT ![w] = Append(@, key)]
                /\ Advance(w, rows, AfterParent(w))
                /\ UNCHANGED <<tables, objs, staged, out, conn, pre, q>>

\* lines 110-111: one row of insert(child_table).values(child_instances)
InsertChildRow(w) ==
  /\ pc[w] = "child"
  /\ LET rows == staged[w].child_instances
         key == Uuid(rows[idx[w]].id)
     IN /\ ~HeldByOther(w, "child", key)
        /\ IF Duplicate(w, "child", key)
           THEN Raise(w, "UniqueViolation")
           ELSE /\ tx' = [tx EXCEPT ![w].child = @ (+) SetToBag({key})]
                /\ Advance(w, rows, "parent_child")
                /\ UNCHANGED <<tables, objs, staged, result, out, conn, pre, q>>

\* lines 113-114: one row of insert(parent_child_table).values(parent_child_instances)
InsertParentChildRow(w) ==
  /\ pc[w] = "parent_child"
  /\ LET rows == staged[w].parent_child_instances
         key == <<Uuid(rows[idx[w]].parent_id), Uuid(rows[idx[w]].child_id)>>
     IN /\ ~HeldByOther(w, "parent_child", key)
        /\ IF Duplicate(w, "parent_child", key)
           THEN Raise(w, "UniqueViolation")
           ELSE IF ~ForeignKeysHold(w, key)
           THEN Raise(w, "ForeignKeyViolation")
           ELSE /\ tx' = [tx EXCEPT ![w].parent_child = @ (+) SetToBag({key})]
                /\ Advance(w, rows, "commit")
                /\ UNCHANGED <<tables, objs, staged, result, out, conn, pre, q>>

\* ReturnValue with a fault: the length of the wrong list
ReturnChildCount(w) == Len(staged[w].child_instances)

\* lines 116-117: len(parent_ids), the number of rows RETURNING gave
ReturnValue(w) == Len(result[w])

\* lines 116-117: fetchall and return; the transaction commits as `with conn.begin()` is left
Commit(w) ==
  /\ pc[w] = "commit"
  /\ parent_table' = parent_table (+) tx[w].parent
  /\ child_table' = child_table (+) tx[w].child
  /\ parent_child_table' = parent_child_table (+) tx[w].parent_child
  /\ tx' = [tx EXCEPT ![w] = NoTx]
  /\ pc' = [pc EXCEPT ![w] = "returned"]
  /\ out' = [out EXCEPT ![w] = [kind |-> "returned", value |-> ReturnValue(w)]]
  /\ conn' = [conn EXCEPT ![w] = "closed"]
  /\ UNCHANGED <<objs, staged, idx, result, pre, q>>

\* the table and the key of the row the running INSERT of w writes next
NextKey(w) ==
  CASE pc[w] = "parent" -> <<"parent", Uuid(staged[w].parent_instances[idx[w]].user_id)>>
    [] pc[w] = "child" -> <<"child", Uuid(staged[w].child_instances[idx[w]].id)>>
    [] pc[w] = "parent_child" ->
         <<"parent_child", <<Uuid(staged[w].parent_child_instances[idx[w]].parent_id),
                             Uuid(staged[w].parent_child_instances[idx[w]].child_id)>> >>
    [] OTHER -> <<"none", 0>>

\* w's INSERT waits for the end of o's transaction
WaitsFor(w, o) ==
  /\ o # w
  /\ NextKey(w)[1] # "none"
  /\ PrimaryKey(NextKey(w)[1])
  /\ BagIn(NextKey(w)[2], tx[o][NextKey(w)[1]])

\* two transactions wait for each other: PostgreSQL ends one of them with an error
DeadlockAbort(w) ==
  /\ \E o \in Writers : WaitsFor(w, o) /\ WaitsFor(o, w)
  /\ Raise(w, "DeadlockDetected")

\* the call is over and its locals are gone: the caller may call again
Finish(w) ==
  /\ pc[w] \in {"returned", "raised"}
  /\ pc' = [pc EXCEPT ![w] = "idle"]
  /\ objs' = [objs EXCEPT ![w] = <<>>]
  /\ staged' = [staged EXCEPT ![w] = NoStage]
  /\ idx' = [idx EXCEPT ![w] = 1]
  /\ result' = [result EXCEPT ![w] = <<>>]
  /\ out' = [out EXCEPT ![w] = NoOut]
  /\ conn' = [conn EXCEPT ![w] = "none"]
  /\ pre' = [pre EXCEPT ![w] = NoTables]
  /\ UNCHANGED <<tables, tx, q>>

\* ------------------------------------------------------ query

\* id: UUID4 | list[UUID4], the argument of query
QueryArgs ==
  [kind : {"one"}, id : ParentIds] \cup
  [kind : {"list"}, ids : SeqsUpTo(ParentIds, MaxKeys)]

\* lines 128-135: the WHERE clause
Where(arg, parent_id) ==
  IF arg.kind = "list" THEN parent_id \in Range(arg.ids) ELSE parent_id = arg.id

\* lines 122-135: child JOIN parent_child ON child.id = parent_child.child_id WHERE ...;
\* a row for every pair of a parent_child row and a child row that match
JoinRows(arg) ==
  LET links == Visible(parent_child_table, Pending("parent_child"))
      children == Visible(child_table, Pending("child"))
      matching == {l \in BagToSet(links) : Where(arg, l[1]) /\ BagIn(l[2], children)}
  IN UNION {[parent_id : {l[1]}, id : {l[2]},
             copy : (1..CopiesIn(l, links)) \X (1..CopiesIn(l[2], children))] :
              l \in matching}

\* the SELECT has no ORDER BY: the rows come in any order
Orders(S) == {s \in [1..Cardinality(S) -> S] : Range(s) = S}

\* lines 140-142: parents[row["parent_id"]].append(row["id"]); a dict keeps its keys
\* in the order in which they were first set
RECURSIVE Group(_, _)
Group(rows, parents) ==
  IF rows = <<>> THEN parents
  ELSE LET row == Head(rows)
           at == {i \in DOMAIN parents : parents[i].key = row.parent_id}
           parents2 ==
             IF at = {}
             THEN Append(parents, [key |-> row.parent_id, value |-> <<row.id>>])
             ELSE LET i == CHOOSE j \in at : TRUE
                  IN [parents EXCEPT ![i].value = Append(@, row.id)]
       IN Group(Tail(rows), parents2)

\* lines 145-147
Results(parents) ==
  [i \in DOMAIN parents |->
     [id |-> parents[i].key,
      children |-> [j \in DOMAIN parents[i].value |-> [id |-> parents[i].value[j]]]]]

\* line 149: results if isinstance(id, list) else results[0]
QueryOutcome(arg, results) ==
  IF arg.kind = "list" THEN [kind |-> "returned", value |-> results]
  ELSE IF results = <<>> THEN [kind |-> "raised", error |-> "IndexError"]
  ELSE [kind |-> "returned", value |-> results[1]]

\* lines 119-149: one SELECT on one snapshot, then the regrouping
Query(arg) ==
  /\ \E rows \in Orders(JoinRows(arg)) :
       q' = [kind |-> "query", arg |-> arg, rows |-> rows, db |-> tables,
             pending |-> Pending("parent_child"),
             outcome |-> QueryOutcome(arg, Results(Group(rows, <<>>)))]
  /\ UNCHANGED <<tables, pc, objs, staged, idx, tx, result, out, conn, pre>>

\* ------------------------------------------------------ specifications

\* the state after metadata_obj.create_all(engine) on the database just created
Init ==
  /\ parent_table = EmptyBag
  /\ child_table = EmptyBag
  /\ parent_child_table = EmptyBag
  /\ pc = [w \in Writers |-> "idle"]
  /\ objs = [w \in Writers |-> <<>>]
  /\ staged = [w \in Writers |-> NoStage]
  /\ idx = [w \in Writers |-> 1]
  /\ tx = [w \in Writers |-> NoTx]
  /\ result = [w \in Writers |-> <<>>]
  /\ out = [w \in Writers |-> NoOut]
  /\ conn = [w \in Writers |-> "none"]
  /\ pre = [w \in Writers |-> NoTables]
  /\ q = NoQuery

\* the statements of the transaction of create_many
Transaction(w) ==
  \/ InsertParentRow(w)
  \/ InsertChildRow(w)
  \/ InsertParentChildRow(w)
  \/ Commit(w)

\* one caller, calling create_many again and again, one call after the other
Next ==
  \/ \E os \in Batches : Call("w1", os)
  \/ Transaction("w1")
  \/ Finish("w1")

Spec == Init /\ [][Next]_vars

\* one call of create_many and, beside it, a caller of query
NextQuery ==
  \/ \E os \in Batches : Call("w1", os)
  \/ Transaction("w1")
  \/ \E arg \in QueryArgs : Query(arg)

SpecQuery == Init /\ [][NextQuery]_vars

\* two callers of create_many, one call each, their steps interleaved
Race(w) ==
  \/ \E os \in RaceBatches : Call(w, os)
  \/ Transaction(w)
  \/ DeadlockAbort(w)

NextRace == \E w \in Writers : Race(w)

SpecRace == Init /\ [][NextRace]_vars

\* ------------------------------------------------------ the claims' vocabulary

ParentIdsOf(os) == {os[i].id : i \in DOMAIN os}

ChildIdsOfParent(obj) == {obj.children[j].id : j \in DOMAIN obj.children}

ChildIdsOf(os) == UNION {ChildIdsOfParent(os[i]) : i \in DOMAIN os}

RECURSIVE Memberships(_)
Memberships(os) ==
  IF os = <<>> THEN 0 ELSE Len(Head(os).children) + Memberships(Tail(os))

\* the rows of a staged list that equal row
Occurrences(rows, row) == Cardinality({i \in DOMAIN rows : rows[i] = row})

\* the call of w staged a row that breaks a primary key, given the tables it began with
BreaksKey(w) ==
  \/ \E i \in DOMAIN staged[w].parent_instances :
       \/ BagIn(Uuid(staged[w].parent_instances[i].user_id), pre[w][1])
       \/ \E j \in DOMAIN staged[w].parent_instances :
            j # i /\ staged[w].parent_instances[j] = staged[w].parent_instances[i]
  \/ \E i \in DOMAIN staged[w].child_instances :
       BagIn(Uuid(staged[w].child_instances[i].id), pre[w][2])

\* ------------------------------------------------------ claims on create_many

\* C2 (as claimed): when a call that returned held two distinct Parents that both
\* reference one Child identity, the child table holds one row for it, the
\* parent_child table holds one row for each of the two Parents, and the number of
\* parent_child rows staged is the number of (parent, child) memberships of the input.
C2_SharedChildTwoLinks ==
  \A w \in Writers :
    pc[w] = "returned" =>
      \A i, j \in DOMAIN objs[w] :
        \A c \in ChildIdsOfParent(objs[w][i]) \cap ChildIdsOfParent(objs[w][j]) :
          objs[w][i].id # objs[w][j].id =>
            /\ CopiesIn(c, child_table) = 1
            /\ CopiesIn(<<objs[w][i].id, c>>, parent_child_table) = 1
            /\ CopiesIn(<<objs[w][j].id, c>>, parent_child_table) = 1
            /\ Len(staged[w].parent_child_instances) = Memberships(objs[w])

\* C3: create_many is all-or-nothing. A call that raised left the three tables as they
\* were when it began and kept no row of its own; and a call whose staged rows break a
\* primary key (a Parent or a Child identity already stored, a Parent identity twice
\* in the list) never returns.
C3_AllOrNothing ==
  \A w \in Writers :
    /\ pc[w] = "raised" =>
         /\ tables = pre[w]
         /\ tx[w] = NoTx
         /\ out[w].kind = "raised"
    /\ (pc[w] = "returned" /\ objs[w] # <<>>) => ~BreaksKey(w)

\* C3's case: the call wrote its Parent rows, then failed on a Child identity that
\* was already stored
C3_Witness ==
  /\ pc["w1"] = "raised"
  /\ out["w1"].error = "UniqueViolation"
  /\ Len(result["w1"]) = Len(objs["w1"])
  /\ parent_table # EmptyBag
  /\ \E c \in ChildIdsOf(objs["w1"]) : BagIn(c, pre["w1"][2])

\* C7: create_many of the empty list returns 0, opens no connection, begins no
\* transaction and leaves the three tables as they were.
C7_EmptyIsNoOp ==
  \A w \in Writers :
    (pc[w] = "returned" /\ objs[w] = <<>>) =>
      /\ out[w] = [kind |-> "returned", value |-> 0]
      /\ conn[w] = "none"
      /\ tx[w] = NoTx
      /\ tables = pre[w]

\* C7's case: the empty list, given after a call that stored rows
C7_Witness ==
  /\ pc["w1"] = "returned"
  /\ objs["w1"] = <<>>
  /\ out["w1"].value = 0
  /\ parent_table # EmptyBag
  /\ child_table # EmptyBag

\* C8: a call of create_many that returns on a non-empty list returns the length of
\* the list, which is the number of rows the call added to table parent, one for each
\* Parent of the list; with or without Children.
C8_ReturnsParentCount ==
  \A w \in Writers :
    (pc[w] = "returned" /\ objs[w] # <<>>) =>
      /\ out[w].value = Len(objs[w])
      /\ BagCardinality(parent_table) = BagCardinality(pre[w][1]) + Len(objs[w])
      /\ \A p \in ParentIdsOf(objs[w]) : CopiesIn(p, parent_table) = 1

\* C8's case: two Parents without any Child, the child and parent_child inserts skipped
C8_Witness ==
  /\ pc["w1"] = "returned"
  /\ Len(objs["w1"]) = 2
  /\ staged["w1"].child_instances = <<>>
  /\ out["w1"].value = 2
  /\ child_table = EmptyBag

\* C10 (as claimed): a call whose list holds a Parent that lists one Child identity
\* twice (and breaks no primary key of parent or child) stages two parent_child rows for that pair, fails on the primary key of
\* parent_child, and leaves the tables as they were.
C10_RepeatedChildRejected ==
  \A w \in Writers :
    (pc[w] \in {"returned", "raised"} /\ ~BreaksKey(w)) =>
      \A i \in DOMAIN objs[w] :
        \A j, k \in DOMAIN objs[w][i].children :
          (j # k /\ objs[w][i].children[j] = objs[w][i].children[k]) =>
            /\ Occurrences(staged[w].parent_child_instances,
                           [parent_id |-> Str(objs[w][i].id),
                            child_id |-> Str(objs[w][i].children[j].id)]) >= 2
            /\ pc[w] = "raised"
            /\ out[w].error = "UniqueViolation"
            /\ tables = pre[w]

\* ------------------------------------------------------ claims on concurrent calls

\* the two calls of C4: lists with disjoint Parent identities, each Parent identity
\* once in its list, and a Child identity in both lists
C4_Case ==
  /\ objs["w1"] # <<>> /\ objs["w2"] # <<>>
  /\ ParentIdsOf(objs["w1"]) \cap ParentIdsOf(objs["w2"]) = {}
  /\ \A w \in Writers : Cardinality(ParentIdsOf(objs[w])) = Len(objs[w])
  /\ ChildIdsOf(objs["w1"]) \cap ChildIdsOf(objs["w2"]) # {}

\* C4: of two calls of create_many with disjoint Parent identities and a shared Child
\* identity, in every interleaving, one returns and the other raises; table child never
\* holds an identity twice, and when both have ended, no parent, child or parent_child
\* row of the call that raised is stored.
C4_OneWins ==
  /\ \A c \in ChildIds : CopiesIn(c, child_table) <= 1
  /\ (C4_Case /\ \A w \in Writers : pc[w] \in {"returned", "raised"}) =>
       \E win \in Writers : \E lose \in Writers \ {win} :
         /\ pc[win] = "returned"
         /\ pc[lose] = "raised"
         /\ tx[lose] = NoTx
         /\ \A p \in ParentIdsOf(objs[lose]) : ~BagIn(p, parent_table)
         /\ \A l \in BagToSet(parent_child_table) : l[1] \notin ParentIdsOf(objs[lose])
         /\ BagToSet(child_table) = ChildIdsOf(objs[win])
         /\ BagToSet(parent_table) = ParentIdsOf(objs[win])

\* C4's case: both calls began on the empty tables, and the one that had to wait for
\* the other's Child row raised when the other committed
C4_Witness ==
  /\ C4_Case
  /\ pre["w1"] = NoTables
  /\ pre["w2"] = NoTables
  /\ pc["w1"] = "returned"
  /\ pc["w2"] = "raised"
  /\ out["w2"].error = "UniqueViolation"
  /\ Len(result["w2"]) = Len(objs["w2"])

\* ------------------------------------------------------ claims on query

\* the parent_id values of rows, each once, in the order of their first row
RECURSIVE FirstSeen(_, _)
FirstSeen(rows, seen) ==
  IF rows = <<>> THEN seen
  ELSE FirstSeen(Tail(rows),
                 IF Head(rows).parent_id \in Range(seen) THEN seen
                 ELSE Append(seen, Head(rows).parent_id))

\* the query read the tables as they are now
QueryIsCurrent == q.kind = "query" /\ q.db = tables

\* no Parent of the list lists a Child identity twice
NoRepeatedChild(os) ==
  \A i \in DOMAIN os : Cardinality(ChildIdsOfParent(os[i])) = Len(os[i].children)

\* C1 (as claimed, for the Parents that have a Child, in lists where no Parent lists a
\* Child twice): after create_many returned on a list whose identities were not stored
\* before, query of the identity of a Parent of the list returns that Parent: the same
\* identity, the same Child identities in the same order.
C1_RoundTrip ==
  \A w \in Writers :
    (/\ QueryIsCurrent /\ q.arg.kind = "one"
     /\ pc[w] = "returned" /\ ~BreaksKey(w) /\ NoRepeatedChild(objs[w])) =>
      \A i \in DOMAIN objs[w] :
        (objs[w][i].id = q.arg.id /\ objs[w][i].children # <<>>) =>
          /\ q.outcome.kind = "returned"
          /\ q.outcome.value = objs[w][i]

\* C5 (as claimed): query of one identity that matches no row ends in an explicit
\* "not found" outcome: not in a Parent without children, and not in the error of
\* taking the first element of the empty list of results.
C5_NotFound ==
  (q.kind = "query" /\ q.arg.kind = "one" /\ q.rows = <<>>) =>
    /\ q.outcome.kind = "raised"
    /\ q.outcome.error = "NotFound"

\* C6 (as claimed, after a create_many whose Parents each have a Child and list no
\* Child twice): query of a list of identities returns, without an error, one Parent
\* for each identity of the list that is a stored Parent and nothing for the others, in
\* the order in which the identities first occur in the rows of the join.
C6_KnownOnly ==
  \A w \in Writers :
    (/\ QueryIsCurrent /\ q.arg.kind = "list"
     /\ pc[w] = "returned" /\ NoRepeatedChild(objs[w])
     /\ \A i \in DOMAIN objs[w] : objs[w][i].children # <<>>) =>
      /\ q.outcome.kind = "returned"
      /\ LET value == q.outcome.value
             known == Range(q.arg.ids) \cap BagToSet(q.db[1])
         IN /\ {value[i].id : i \in DOMAIN value} = known
            /\ Len(value) = Cardinality(known)
            /\ [i \in DOMAIN value |-> value[i].id] = FirstSeen(q.rows, <<>>)

\* C9: a query beside a create_many in flight never reads a half-written Parent. Each
\* Parent identity in the rows it read was committed when it read, with all the
\* parent_child rows the commit gave that Parent, each with its child row: the query
\* read either nothing of the Parent or all of it.
C9_NoHalfWritten ==
  q.kind = "query" =>
    \A p \in {q.rows[i].parent_id : i \in DOMAIN q.rows} :
      /\ BagIn(p, q.db[1])
      /\ BagIn(p, parent_table)
      /\ {q.rows[i].id : i \in {j \in DOMAIN q.rows : q.rows[j].parent_id = p}}
           = {l[2] : l \in {x \in BagToSet(parent_child_table) : x[1] = p}}
      /\ \A i \in DOMAIN q.rows : BagIn(q.rows[i].id, child_table)

\* C9's case: the query asked for the Parents of the list while the transaction had
\* written one of its two parent_child rows, and read none of them
C9_Witness ==
  /\ q.kind = "query"
  /\ q.arg.kind = "list"
  /\ ParentIdsOf(objs["w1"]) \subseteq Range(q.arg.ids)
  /\ Len(staged["w1"].parent_child_instances) = 2
  /\ BagCardinality(q.pending) = 1
  /\ q.rows = <<>>
  /\ pc["w1"] = "returned"

====
